---- MODULE Spec2Model ----
(***************************************************************************)
(* A model of the go-logger package (src/logger/logger.go).                *)
(*                                                                         *)
(* A Go string is modelled as a sequence of tokens.  A token is either one *)
(* of the characters the code treats specially (ESC, "[", a decimal digit, *)
(* ";", "m", "G", "K", newline, space, "/", ":", the JSON punctuation) or  *)
(* a word of ordinary characters ("INFO", "timestamp", "hello").  Digits   *)
(* are always tokens of their own, so that the escape-sequence pattern of  *)
(* stripColors sees every parameter character.                             *)
(*                                                                         *)
(* The instance logger writes to a buffer of its own (the tests call       *)
(* SetOutput(buf) right after NewLogger); the package logger `log` writes  *)
(* to standard output.  A sink accepts every byte it is given.             *)
(***************************************************************************)
EXTENDS Naturals, Sequences, FiniteSets, TLC

VARIABLES
    level,      \* Logger.level, per logger
    color,      \* Logger.color, per logger
    formatter,  \* Logger.formatter, per logger: "default" or "json"
    mutex,      \* Logger.mutex, per logger: 0 (unlocked) or the caller holding it
    sink,       \* the bytes received by the logger's io.Writer, per logger
    nocolor,    \* github.com/fatih/color's NoColor (set from the terminal at start-up)
    now,        \* the wall clock read by time.Now()
    pc,         \* per caller: its position in the call it is making
    call,       \* per caller: the arguments of the call it is making
    out,        \* per caller: the local variable `output` of Logger.Log
    wpos,       \* per caller: how many tokens of its line the sink has taken
    ncalls,     \* per caller: the calls it has made
    exited,     \* the process has terminated
    exitCode,   \* the exit code, once terminated
    fmtCalls,   \* the invocations of the formatter so far
    captures,   \* the invocations of runtime.Caller so far
    strIn,      \* an argument of stripColors
    strOut      \* the results of applying stripColors to it, repeatedly

vars == <<level, color, formatter, mutex, sink, nocolor, now, pc, call, out,
          wpos, ncalls, exited, exitCode, fmtCalls, captures, strIn, strOut>>

-----------------------------------------------------------------------------
(* Bounds *)

NCallers == 2
MaxCalls == 2
MaxFmtCalls == 1
MaxSeq == 2
MaxClock == 2
MaxLen == 6
WritePieces == 2

-----------------------------------------------------------------------------
(* Tokens and string helpers *)

ESC == "ESC"
NL == "NL"
SP == " "
QUOTE == "QUOTE"
BSLASH == "BSLASH"

Digits == <<"0", "1", "2", "3", "4", "5", "6", "7", "8", "9">>

RECURSIVE Concat(_)
Concat(ss) == IF ss = <<>> THEN <<>> ELSE Head(ss) \o Concat(Tail(ss))

\* strings.Join(parts, sep)
RECURSIVE Join(_, _)
Join(parts, sep) ==
    IF parts = <<>> THEN <<>>
    ELSE IF Len(parts) = 1 THEN parts[1]
    ELSE parts[1] \o sep \o Join(Tail(parts), sep)

\* the positions of token t in s, and the n-th smallest element of a set
Positions(s, t) == {i \in 1..Len(s) : s[i] = t}

Nth(S, n) == CHOOSE k \in S : Cardinality({j \in S : j <= k}) = n

\* strings.Split(s, sep) for a one-token separator: the parts between the
\* separators, one more than there are separators
Split(s, sep) ==
    LET P == Positions(s, sep)
        cut(n) == IF n = 0 THEN 0
                  ELSE IF n > Cardinality(P) THEN Len(s) + 1
                  ELSE Nth(P, n)
    IN [n \in 1..(Cardinality(P) + 1) |-> SubSeq(s, cut(n - 1) + 1, cut(n) - 1)]

\* strings.ReplaceAll(s, old, new) for one-token old and new
ReplaceAll(s, old, new) == [i \in 1..Len(s) |-> IF s[i] = old THEN new ELSE s[i]]

\* the decimal digits of n (fmt's %d)
RECURSIVE Itoa(_)
Itoa(n) == IF n < 10 THEN <<Digits[n + 1]>> ELSE Itoa(n \div 10) \o <<Digits[(n % 10) + 1]>>

-----------------------------------------------------------------------------
(* stripColors: regexp \x1b\[[0-9;]*[mGK], every leftmost match removed *)

Params == {"0", "1", "2", "3", "4", "5", "6", "7", "8", "9", ";"}
Finals == {"m", "G", "K"}

\* the index of the last token of the match that starts at i, or 0: the
\* parameters are taken greedily, and the token that stops them must be final
MatchEnd(s, i) ==
    IF s[i] = ESC /\ i + 1 <= Len(s) /\ s[i + 1] = "["
    THEN LET stops == {j \in (i + 2)..Len(s) : s[j] \notin Params}
         IN IF stops = {} THEN 0
            ELSE LET j == CHOOSE x \in stops : \A y \in stops : x <= y
                 IN IF s[j] \in Finals THEN j ELSE 0
    ELSE 0

\* ReplaceAllString(s, ""): a match holds no ESC but its first token, so no
\* match starts inside another and the left-to-right scan finds a match at
\* every position where one starts; the tokens outside all matches are kept
stripColors(s) ==
    LET matched == UNION {i..MatchEnd(s, i) : i \in Positions(s, ESC)}
        kept == SelectSeq([k \in 1..Len(s) |-> k], LAMBDA k : k \notin matched)
    IN [n \in 1..Len(kept) |-> s[kept[n]]]

-----------------------------------------------------------------------------
(* Levels, fields, loggers *)

LevelDebug == 0
LevelInfo == 1
LevelWarn == 2
LevelError == 3
LevelFatal == 4

Levels == LevelDebug..LevelFatal

\* LogLevel.String
String(l) ==
    CASE l = LevelDebug -> "debug"
      [] l = LevelInfo -> "info"
      [] l = LevelWarn -> "warn"
      [] l = LevelError -> "error"
      [] l = LevelFatal -> "fatal"
      [] OTHER -> "unknown"

LogFields(method, path, status, size, latency, callerInfo) ==
    [Method |-> method, Path |-> path, Status |-> status, Size |-> size,
     Latency |-> latency, CallerInfo |-> callerInfo]

NewLogFields(method, path, status, size, latency) ==
    LogFields(method, path, status, size, latency, <<>>)

\* the package logger `log` ("app") and a logger made by the caller ("inst")
Loggers == {"app", "inst"}

Callers == 1..NCallers

\* the status os.Exit is given
ExitStatus == 1

-----------------------------------------------------------------------------
(* github.com/fatih/color: Sprint wraps its text in an SGR sequence and a  *)
(* reset unless NoColor is set                                             *)

FgCyan == <<"3", "6">>
FgHiRed == <<"9", "1">>
FgHiGreen == <<"9", "2">>
FgHiYellow == <<"9", "3">>
FgHiBlue == <<"9", "4">>
FgHiMagenta == <<"9", "5">>
FgHiCyan == <<"9", "6">>
FgHiWhite == <<"9", "7">>

Sprint(attr, s, nc) ==
    IF nc THEN s ELSE <<ESC, "[">> \o attr \o <<"m">> \o s \o <<ESC, "[", "0", "m">>

\* time.Now().Format(time.RFC3339), of the clock value t
RFC3339(t) == <<"T">> \o Itoa(t) \o <<"Z">>

-----------------------------------------------------------------------------
(* defaultFormatter *)

levelStr(lv) ==
    CASE lv = LevelDebug -> "DEBUG"
      [] lv = LevelInfo -> "INFO"
      [] lv = LevelWarn -> "WARN"
      [] lv = LevelError -> "ERROR"
      [] lv = LevelFatal -> "FATAL"

levelColor(lv) ==
    CASE lv = LevelDebug -> FgHiCyan
      [] lv = LevelInfo -> FgHiGreen
      [] lv = LevelWarn -> FgHiYellow
      [] lv = LevelError -> FgHiRed
      [] lv = LevelFatal -> FgHiMagenta

\* a request line for a method or a path alone
HasMethodOrPath(fields) == fields.Method # <<>> \/ fields.Path # <<>>

\* the request line is rendered when the method and the path are both given
HasRequestLine(fields) == fields.Method # <<>> /\ fields.Path # <<>>

components(lv, message, fields, t, nc) ==
    <<Sprint(levelColor(lv), <<"[", levelStr(lv), "]">>, nc),
      Sprint(FgHiWhite, RFC3339(t), nc)>>
    \o (IF HasRequestLine(fields)
        THEN <<Sprint(FgHiBlue, fields.Method \o <<SP>> \o fields.Path, nc)>>
        ELSE <<>>)
    \o (IF fields.Status # <<>> THEN <<Sprint(FgHiGreen, fields.Status, nc)>> ELSE <<>>)
    \o (IF fields.Size # <<>> THEN <<Sprint(FgHiYellow, fields.Size, nc)>> ELSE <<>>)
    \o (IF fields.Latency # <<>> THEN <<Sprint(FgHiMagenta, fields.Latency, nc)>> ELSE <<>>)
    \o <<Sprint(FgHiWhite, <<"-">>, nc), Sprint(FgCyan, message, nc)>>
    \o <<Sprint(FgHiWhite, <<"-">>, nc), Sprint(FgHiBlue, fields.CallerInfo, nc)>>

defaultFormatter(lv, message, fields, t, nc) ==
    Join(components(lv, message, fields, t, nc), <<SP>>)

-----------------------------------------------------------------------------
(* JSONFormatter: encoding/json writes a map with its keys sorted, a       *)
(* struct in declaration order without its omitempty fields, and a string  *)
(* with its quotes, backslashes and control characters escaped             *)

jsonEscape(ch) ==
    CASE ch = QUOTE -> <<BSLASH, QUOTE>>
      [] ch = BSLASH -> <<BSLASH, BSLASH>>
      [] ch = NL -> <<BSLASH, "n">>
      [] ch = ESC -> <<BSLASH, "u001b">>
      [] OTHER -> <<ch>>

jsonString(s) ==
    <<QUOTE>> \o Concat([i \in 1..Len(s) |-> jsonEscape(s[i])]) \o <<QUOTE>>

jsonMember(key, value) == jsonString(<<key>>) \o <<":">> \o value

jsonObject(members) == <<"{">> \o Join(members, <<",">>) \o <<"}">>

\* a member written whatever the string
keepEmpty(key, s) == <<jsonMember(key, jsonString(s))>>

omitempty(key, s) == IF s = <<>> THEN <<>> ELSE <<jsonMember(key, jsonString(s))>>

jsonFields(fields) ==
    jsonObject(omitempty("method", fields.Method)
               \o omitempty("path", fields.Path)
               \o omitempty("status", fields.Status)
               \o omitempty("size", fields.Size)
               \o omitempty("latency", fields.Latency)
               \o omitempty("caller_info", fields.CallerInfo))

JSONFormatter(lv, message, fields, t) ==
    jsonObject(<<jsonMember("fields", jsonFields(fields)),
                 jsonMember("level", jsonString(<<String(lv)>>)),
                 jsonMember("message", jsonString(message)),
                 jsonMember("timestamp", jsonString(RFC3339(t)))>>)

-----------------------------------------------------------------------------
(* Logger.Log, in pieces *)

\* a filter that also drops the calls at the minimum level itself
SuppressedAtMin(lv, min) == lv <= min

\* line 91: the call is dropped
Suppressed(lv, min) == lv < min

\* lines 96-101: the token made of what runtime.Caller(2) returned
captureCaller(frame) ==
    LET fileParts == Split(frame.file, "/")
        kept == IF Len(fileParts) > 3
                THEN SubSeq(fileParts, Len(fileParts) - 2, Len(fileParts))
                ELSE fileParts
    IN Join(kept, <<"/">>) \o <<":">> \o Itoa(frame.line)

\* the caller token captured whatever the fields hold
alwaysCapture(fields, frame) == [fields EXCEPT !.CallerInfo = captureCaller(frame)]

\* lines 95-102
withCallerInfo(fields, frame) ==
    IF fields.CallerInfo = <<>>
    THEN [fields EXCEPT !.CallerInfo = captureCaller(frame)]
    ELSE fields

\* line 106
format(fmt, lv, message, fields, t, nc) ==
    IF fmt = "json" THEN JSONFormatter(lv, message, fields, t)
    ELSE defaultFormatter(lv, message, fields, t, nc)

\* lines 95-109: the value of `output` when the lock is taken
output(lg, cl, frame) ==
    LET fields == withCallerInfo(cl.fields, frame)
        msg == ReplaceAll(cl.msg, NL, SP)
        o == format(formatter[lg], cl.level, msg, fields, now, nocolor)
    IN IF ~color[lg] THEN stripColors(o) ELSE o

\* a sink that puts what it is given in front
WriteInFront(buf, p) == p \o buf

\* io.Writer.Write on the sink
Write(buf, p) == buf \o p

\* fmt.Fprintln(l.out, output) hands the sink the operand and a newline
lineOf(o) == o \o <<NL>>

\* the logger a call goes to: the package-level functions use `log`
Target(cl) == IF cl.kind = "func" THEN "app" ELSE "inst"

\* every level method and function ending the process
TerminatesAtAnyLevel(cl) == cl.kind \in {"method", "func"}

\* Logger.Fatal and Fatal call os.Exit after Log
Terminates(cl) == cl.kind \in {"method", "func"} /\ cl.level = LevelFatal

\* a lock that never waits
CanLockAnyway(lg) == TRUE

\* l.mutex.Lock() returns when no one holds the mutex
CanLock(lg) == mutex[lg] = 0

NoCall == [level |-> LevelDebug, fields |-> NewLogFields(<<>>, <<>>, <<>>, <<>>, <<>>),
           msg |-> <<>>, kind |-> "none"]

-----------------------------------------------------------------------------
(* Initial states *)

\* NewLogger: level Info, color on, the default formatter
InitLoggers ==
    /\ level = [lg \in Loggers |-> LevelInfo]
    /\ color = [lg \in Loggers |-> TRUE]
    /\ formatter = [lg \in Loggers |-> "default"]

InitRest ==
    /\ mutex = [lg \in Loggers |-> 0]
    /\ sink = [lg \in Loggers |-> <<>>]
    /\ nocolor \in BOOLEAN
    /\ now = 0
    /\ pc = [c \in Callers |-> "idle"]
    /\ call = [c \in Callers |-> NoCall]
    /\ out = [c \in Callers |-> <<>>]
    /\ wpos = [c \in Callers |-> 0]
    /\ ncalls = [c \in Callers |-> 0]
    /\ exited = FALSE
    /\ exitCode = 0
    /\ fmtCalls = 0
    /\ captures = 0
    /\ strIn = <<>>
    /\ strOut = <<>>

Init == InitLoggers /\ InitRest

\* the instance logger configured by its setters before the callers start
InitConfigured ==
    /\ \E lv \in {LevelInfo, LevelError} : level = [app |-> LevelInfo, inst |-> lv]
    /\ \E b \in BOOLEAN : color = [app |-> TRUE, inst |-> b]
    /\ \E f \in {"default", "json"} : formatter = [app |-> "default", inst |-> f]
    /\ InitRest

-----------------------------------------------------------------------------
(* What the environment supplies: call arguments and stack frames *)

\* what runtime.Caller(2) may return: a deep path, a short one, and the
\* zero values it returns when the stack has no such frame
Frames ==
    {[file |-> <<"/", "home", "/", "dev", "/", "shop", "/", "api", "/", "main.go">>, line |-> 42],
     [file |-> <<"app", "/", "main.go">>, line |-> 7],
     [file |-> <<>>, line |-> 0]}

OneFrame == {[file |-> <<"app", "/", "main.go">>, line |-> 7]}

Plain == <<"hello">>
NoFields == NewLogFields(<<>>, <<>>, <<>>, <<>>, <<>>)
GET == <<"GET">>
Ping == <<"/", "ping">>
OK200 == <<"200", SP, "OK">>
KB51 == <<"51KB">>
Ms120 == <<"120ms">>
Here == <<"cmd", "/", "main.go", ":", "1", "2">>

\* messages: plain, with a newline, with a quote, colored, and with an
\* escape sequence wrapped around another
FmtMsgs ==
    {Plain,
     <<"two", NL, "lines">>,
     <<"say", QUOTE, "hi", QUOTE>>,
     <<ESC, "[", "3", "1", "m", "red", ESC, "[", "0", "m">>,
     <<ESC, ESC, "[", "m", "[", "m">>}

FmtFields ==
    {NewLogFields(GET, <<>>, <<>>, <<>>, <<>>),
     NewLogFields(<<>>, Ping, <<>>, <<>>, <<>>),
     NewLogFields(GET, Ping, <<>>, <<>>, <<>>),
     NewLogFields(<<>>, <<>>, OK200, <<>>, <<>>),
     NewLogFields(<<>>, <<>>, <<>>, KB51, <<>>),
     NewLogFields(<<>>, <<>>, <<>>, <<>>, Ms120),
     NewLogFields(GET, Ping, OK200, KB51, Ms120),
     NewLogFields(<<>>, <<>>, <<"up", NL, "down">>, <<>>, <<>>),
     NewLogFields(<<>>, <<>>, <<ESC, "[", "1", "m", "bold">>, <<>>, <<>>),
     LogFields(<<>>, <<>>, <<>>, <<>>, <<>>, Here),
     LogFields(GET, Ping, OK200, KB51, Ms120, Here),
     LogFields(<<>>, <<>>, <<>>, <<>>, <<>>, <<ESC, "[", "1", "m", "x.go", ":", "9">>),
     LogFields(<<>>, <<>>, <<>>, <<>>, <<>>, <<"a", QUOTE, "b", ":", "3">>)}

Request(kind, lv, msg, fields) == [level |-> lv, fields |-> fields, msg |-> msg, kind |-> kind]

\* the ways to log: Logger.Log, Logger.LogCtx, the level methods of a
\* logger, the package-level functions
Kinds == {"Log", "LogCtx", "method", "func"}

\* every way to log at every level
SeqRequests == {Request(k, lv, Plain, NoFields) : k \in Kinds, lv \in Levels}

\* every level with plain arguments; each message with no fields and each
\* set of fields with the plain message
FmtRequests ==
    {Request("Log", lv, Plain, NoFields) : lv \in Levels}
    \cup {Request("Log", LevelError, m, NoFields) : m \in FmtMsgs}
    \cup {Request("LogCtx", LevelWarn, Plain, f) : f \in FmtFields}

\* a message naming the caller and the number of its call
CallerMsg(c, k) == <<"caller", Itoa(c)[1], "call", Itoa(k)[1]>>

ConcRequests ==
    [c \in Callers |->
        {Request("method", LevelInfo, CallerMsg(c, 1), NoFields),
         Request("method", LevelFatal, CallerMsg(c, 1), NoFields),
         Request("func", LevelFatal, CallerMsg(c, 1), NoFields),
         Request("Log", LevelDebug, CallerMsg(c, 1), NoFields)}]

OrderRequests(c) == {Request("method", LevelInfo, CallerMsg(c, ncalls[c] + 1), NoFields)}

RECURSIVE Sum(_, _)
Sum(f, S) == IF S = {} THEN 0 ELSE LET x == CHOOSE y \in S : TRUE IN f[x] + Sum(f, S \ {x})

TotalCalls == Sum(ncalls, Callers)

-----------------------------------------------------------------------------
(* Actions *)

SetLevel(lv) ==
    /\ ~exited
    /\ \A c \in Callers : pc[c] = "idle"
    /\ level' = [level EXCEPT !["inst"] = lv]
    /\ UNCHANGED <<color, formatter, mutex, sink, nocolor, now, pc, call, out, wpos,
                   ncalls, exited, exitCode, fmtCalls, captures, strIn, strOut>>

SetColor(enabled) ==
    /\ ~exited
    /\ \A c \in Callers : pc[c] = "idle"
    /\ color' = [color EXCEPT !["inst"] = enabled]
    /\ UNCHANGED <<level, formatter, mutex, sink, nocolor, now, pc, call, out, wpos,
                   ncalls, exited, exitCode, fmtCalls, captures, strIn, strOut>>

SetFormatter(fn) ==
    /\ ~exited
    /\ \A c \in Callers : pc[c] = "idle"
    /\ formatter' = [formatter EXCEPT !["inst"] = fn]
    /\ UNCHANGED <<level, color, mutex, sink, nocolor, now, pc, call, out, wpos,
                   ncalls, exited, exitCode, fmtCalls, captures, strIn, strOut>>

\* the clock advances
Tick ==
    /\ ~exited
    /\ now < MaxClock
    /\ now' = now + 1
    /\ UNCHANGED <<level, color, formatter, mutex, sink, nocolor, pc, call, out, wpos,
                   ncalls, exited, exitCode, fmtCalls, captures, strIn, strOut>>

\* caller c starts one of the calls `reqs`, unless it has made `limit` calls
Invoke(c, reqs, limit) ==
    /\ ~exited
    /\ pc[c] = "idle"
    /\ ncalls[c] < limit
    /\ \E rq \in reqs : call' = [call EXCEPT ![c] = rq]
    /\ pc' = [pc EXCEPT ![c] = "called"]
    /\ ncalls' = [ncalls EXCEPT ![c] = @ + 1]
    /\ UNCHANGED <<level, color, formatter, mutex, sink, nocolor, now, out, wpos,
                   exited, exitCode, fmtCalls, captures, strIn, strOut>>

\* Logger.Log, lines 91-109: filter, capture, normalise, format, strip
Prepare(c, frames) ==
    LET cl == call[c]
        lg == Target(cl)
    IN /\ ~exited
       /\ pc[c] = "called"
       /\ IF Suppressed(cl.level, level[lg])
          THEN /\ pc' = [pc EXCEPT ![c] = "returned"]
               /\ UNCHANGED <<out, fmtCalls, captures>>
          ELSE /\ \E fr \in frames : out' = [out EXCEPT ![c] = output(lg, cl, fr)]
               /\ fmtCalls' = fmtCalls + 1
               /\ captures' = IF cl.fields.CallerInfo = <<>> THEN captures + 1 ELSE captures
               /\ pc' = [pc EXCEPT ![c] = "lock"]
       /\ UNCHANGED <<level, color, formatter, mutex, sink, nocolor, now, call, wpos,
                      ncalls, exited, exitCode, strIn, strOut>>

\* line 111
Lock(c) ==
    LET lg == Target(call[c])
    IN /\ ~exited
       /\ pc[c] = "lock"
       /\ CanLock(lg)
       /\ mutex' = [mutex EXCEPT ![lg] = c]
       /\ pc' = [pc EXCEPT ![c] = "write"]
       /\ wpos' = [wpos EXCEPT ![c] = 0]
       /\ UNCHANGED <<level, color, formatter, sink, nocolor, now, call, out, ncalls,
                      exited, exitCode, fmtCalls, captures, strIn, strOut>>

\* line 113: the sink takes the next piece of the line
WriteStep(c) ==
    LET lg == Target(call[c])
        line == lineOf(out[c])
        piece == (Len(line) + WritePieces - 1) \div WritePieces
        next == IF wpos[c] + piece < Len(line) THEN wpos[c] + piece ELSE Len(line)
    IN /\ ~exited
       /\ pc[c] = "write"
       /\ sink' = [sink EXCEPT ![lg] = Write(@, SubSeq(line, wpos[c] + 1, next))]
       /\ wpos' = [wpos EXCEPT ![c] = next]
       /\ pc' = [pc EXCEPT ![c] = IF next = Len(line) THEN "unlock" ELSE "write"]
       /\ UNCHANGED <<level, color, formatter, mutex, nocolor, now, call, out, ncalls,
                      exited, exitCode, fmtCalls, captures, strIn, strOut>>

\* line 112: the deferred Unlock, and Log returns
Unlock(c) ==
    LET lg == Target(call[c])
    IN /\ ~exited
       /\ pc[c] = "unlock"
       /\ mutex' = [mutex EXCEPT ![lg] = 0]
       /\ pc' = [pc EXCEPT ![c] = "returned"]
       /\ UNCHANGED <<level, color, formatter, sink, nocolor, now, call, out, wpos,
                      ncalls, exited, exitCode, fmtCalls, captures, strIn, strOut>>

\* Logger.Log as one step, for a single-threaded caller
Log(c, frames) ==
    LET cl == call[c]
        lg == Target(cl)
    IN /\ ~exited
       /\ pc[c] = "called"
       /\ IF Suppressed(cl.level, level[lg])
          THEN UNCHANGED <<sink, out, wpos, fmtCalls, captures>>
          ELSE /\ CanLock(lg)
               /\ \E fr \in frames :
                    LET o == output(lg, cl, fr)
                    IN /\ out' = [out EXCEPT ![c] = o]
                       /\ sink' = [sink EXCEPT ![lg] = Write(@, lineOf(o))]
                       /\ wpos' = [wpos EXCEPT ![c] = Len(lineOf(o))]
               /\ fmtCalls' = fmtCalls + 1
               /\ captures' = IF cl.fields.CallerInfo = <<>> THEN captures + 1 ELSE captures
       /\ pc' = [pc EXCEPT ![c] = "returned"]
       /\ UNCHANGED <<level, color, formatter, mutex, nocolor, now, call, ncalls,
                      exited, exitCode, strIn, strOut>>

\* the call returns to its caller
Return(c) ==
    /\ ~exited
    /\ pc[c] = "returned"
    /\ ~Terminates(call[c])
    /\ pc' = [pc EXCEPT ![c] = "idle"]
    /\ UNCHANGED <<level, color, formatter, mutex, sink, nocolor, now, call, out, wpos,
                   ncalls, exited, exitCode, fmtCalls, captures, strIn, strOut>>

\* Logger.Fatal line 80, Fatal line 63: os.Exit(1) after Log has returned
Exit(c) ==
    /\ ~exited
    /\ pc[c] = "returned"
    /\ Terminates(call[c])
    /\ exited' = TRUE
    /\ exitCode' = ExitStatus
    /\ UNCHANGED <<level, color, formatter, mutex, sink, nocolor, now, pc, call, out,
                   wpos, ncalls, fmtCalls, captures, strIn, strOut>>

-----------------------------------------------------------------------------
(* stripColors applied to strings over the characters of its pattern *)

Alphabet == {ESC, "[", "0", ";", "m", "G", "K", "x"}

AppendChar ==
    /\ strOut = <<>>
    /\ Len(strIn) < MaxLen
    /\ \E ch \in Alphabet : strIn' = Append(strIn, ch)
    /\ UNCHANGED <<level, color, formatter, mutex, sink, nocolor, now, pc, call, out,
                   wpos, ncalls, exited, exitCode, fmtCalls, captures, strOut>>

ApplyStrip ==
    /\ Len(strOut) < 2
    /\ strOut' = Append(strOut, stripColors(IF strOut = <<>> THEN strIn ELSE strOut[Len(strOut)]))
    /\ UNCHANGED <<level, color, formatter, mutex, sink, nocolor, now, pc, call, out,
                   wpos, ncalls, exited, exitCode, fmtCalls, captures, strIn>>

-----------------------------------------------------------------------------
(* Specifications *)

\* one caller; the level is set between calls
Next ==
    \/ \E lv \in Levels : SetLevel(lv)
    \/ Invoke(1, SeqRequests, MaxCalls)
    \/ Log(1, OneFrame)
    \/ Return(1)
    \/ Exit(1)

Spec == Init /\ [][Next]_vars

\* one caller; color and formatter are set between calls, arguments of every shape
NextFmt ==
    \/ \E b \in BOOLEAN : SetColor(b)
    \/ \E f \in {"default", "json"} : SetFormatter(f)
    \/ Invoke(1, FmtRequests, MaxFmtCalls)
    \/ Log(1, Frames)
    \/ Return(1)

SpecFmt == Init /\ [][NextFmt]_vars

\* concurrent callers, one call each, on loggers configured beforehand
LogStep(c) == Prepare(c, OneFrame) \/ Lock(c) \/ WriteStep(c) \/ Unlock(c) \/ Return(c)

Step(c) == LogStep(c) \/ Exit(c)

NextConc ==
    \/ \E c \in Callers : Invoke(c, ConcRequests[c], 1)
    \/ \E c \in Callers : Step(c)

SpecConc == InitConfigured /\ [][NextConc]_vars

\* concurrent callers, several calls each, while the clock advances
NextOrder ==
    \/ Tick
    \/ \E c \in Callers : TotalCalls < MaxSeq /\ Invoke(c, OrderRequests(c), MaxSeq)
    \/ \E c \in Callers : LogStep(c)

SpecOrder == Init /\ [][NextOrder]_vars

NextStrip == AppendChar \/ ApplyStrip

SpecStrip == Init /\ [][NextStrip]_vars

-----------------------------------------------------------------------------
(* Claims *)

NewLines(s) == Cardinality(Positions(s, NL))

\* C1: Level filtering.  A Log call at a level below the logger's minimum
\* level leaves both sinks as they were and does not invoke the formatter; a
\* Log call at a level at or above the minimum invokes the formatter once and
\* appends exactly one line (the rendered string and one newline) to the
\* logger's sink and nothing to the other sink.  The minimum is whatever the
\* last SetLevel left (Info for the package logger, which has no setter).
LevelFiltering ==
    [][\A c \in Callers :
        (pc[c] = "called" /\ pc'[c] = "returned") =>
            LET cl == call[c]
                lg == Target(cl)
            IN IF cl.level < level[lg]
               THEN sink' = sink /\ fmtCalls' = fmtCalls
               ELSE /\ sink'[lg] = sink[lg] \o out'[c] \o <<NL>>
                    /\ NewLines(sink'[lg]) = NewLines(sink[lg]) + 1
                    /\ \A other \in Loggers \ {lg} : sink'[other] = sink[other]
                    /\ fmtCalls' = fmtCalls + 1]_vars

\* C1 witness: the minimum level was set to Error, an Info call wrote nothing
\* and the Error call after it wrote one line
LevelFilteringWitness ==
    /\ level["inst"] = LevelError
    /\ ncalls[1] = 2
    /\ pc[1] = "returned"
    /\ call[1].kind = "method" /\ call[1].level = LevelError
    /\ NewLines(sink["inst"]) = 1
    /\ fmtCalls = 1

\* every way to put the elements of a set in a sequence
RECURSIVE Orderings(_)
Orderings(S) ==
    IF S = {} THEN {<<>>}
    ELSE UNION {{<<x>> \o o : o \in Orderings(S \ {x})} : x \in S}

\* t occurs in s as a run of consecutive tokens
Contains(s, t) ==
    \E i \in 0..Len(s) : i + Len(t) <= Len(s) /\ SubSeq(s, i + 1, i + Len(t)) = t

\* caller c made a call that was not suppressed
Emits(c) == ncalls[c] > 0 /\ call[c].level >= level[Target(call[c])]

Writing(lg) == {c \in Callers : pc[c] \in {"write", "unlock"} /\ Target(call[c]) = lg}

\* the callers whose line logger lg's sink has taken whole
Written(lg) ==
    {c \in Callers : Emits(c) /\ Target(call[c]) = lg /\ pc[c] \in {"unlock", "returned", "idle"}}

\* the part of its line that the caller now writing to lg has delivered
Partial(lg) ==
    LET w == {c \in Callers : pc[c] = "write" /\ Target(call[c]) = lg}
    IN IF w = {} THEN <<>>
       ELSE LET c == CHOOSE x \in w : TRUE IN SubSeq(out[c] \o <<NL>>, 1, wpos[c])

Finished == \A c \in Callers : ncalls[c] > 0 /\ pc[c] \in {"returned", "idle"}

\* C2: Concurrent logging on one instance.  At no time are two callers
\* inside the sink write of the same logger; at every moment the sink holds,
\* in some order, the whole lines (rendered string and newline) of the callers
\* that have written, followed only by what the caller now writing has
\* delivered of its own line; and once every caller's call is over, the sink
\* holds exactly one whole line for each call that was not suppressed.
NonInterleaved ==
    \A lg \in Loggers :
        /\ Cardinality(Writing(lg)) <= 1
        /\ \E o \in Orderings(Written(lg)) :
             sink[lg] = Concat([i \in 1..Len(o) |-> out[o[i]] \o <<NL>>]) \o Partial(lg)
        /\ Finished =>
             /\ NewLines(sink[lg]) = Cardinality({c \in Callers : Emits(c) /\ Target(call[c]) = lg})
             /\ sink[lg] = <<>> \/ sink[lg][Len(sink[lg])] = NL

\* C2 witness: every caller has logged on the instance logger, none was
\* suppressed, all have returned, and they did not write in caller order
NonInterleavedWitness ==
    /\ \A c \in Callers : pc[c] = "idle" /\ ncalls[c] = 1 /\ Emits(c) /\ Target(call[c]) = "inst"
    /\ NewLines(sink["inst"]) = NCallers
    /\ SubSeq(sink["inst"], 1, Len(out[1])) # out[1]

FatalCall(c) == call[c].kind \in {"method", "func"} /\ call[c].level = LevelFatal

\* C4: Fatal ordering.  The process terminates only by the exit of a caller
\* that is in Logger.Fatal or Fatal and whose Log call has returned, with its
\* whole line (rendered string and newline) in the sink by then, and the exit
\* code is not zero; a call to Fatal never returns to its caller: once its Log
\* call has returned, the only step left to it is the exit, which nothing
\* but the termination of the process by another caller can prevent; and a
\* call at any other level, or through Log or LogCtx, has no exit step.
FatalOrdering ==
    /\ [][exited' # exited =>
            /\ exited' /\ exitCode' # 0
            /\ \E c \in Callers :
                 /\ FatalCall(c) /\ pc[c] = "returned"
                 /\ Contains(sink[Target(call[c])], out[c] \o <<NL>>)
                 /\ Contains(out[c], call[c].msg)]_vars
    /\ [](\A c \in Callers : (pc[c] = "idle" /\ ncalls[c] > 0) => ~FatalCall(c))
    /\ [](~exited => exitCode = 0)
    /\ [](\A c \in Callers :
            (pc[c] = "returned" /\ ~exited) =>
                /\ FatalCall(c) => (ENABLED Exit(c)) /\ ~(ENABLED Return(c))
                /\ ~FatalCall(c) => ~(ENABLED Exit(c)))

\* C4 witness: the process has terminated with the lines of a Fatal on the
\* instance logger and of a Fatal on the package logger both written
FatalOrderingWitness ==
    /\ exited /\ exitCode = 1
    /\ \E c, d \in Callers :
         /\ call[c].kind = "method" /\ FatalCall(c) /\ pc[c] = "returned"
         /\ call[d].kind = "func" /\ FatalCall(d) /\ pc[d] = "returned"
         /\ Contains(sink["inst"], out[c] \o <<NL>>)
         /\ Contains(sink["app"], out[d] \o <<NL>>)

\* C7: Color stripping is idempotent.  Applying stripColors to a string it
\* has already stripped gives the same string again.
StripIdempotent == Len(strOut) = 2 => strOut[2] = strOut[1]

\* what the sink of the call's logger took last, as long as the line of out[c]
LastWrite(c) ==
    LET s == sink[Target(call[c])]
    IN SubSeq(s, Len(s) - Len(out[c]), Len(s))

\* caller c's call was not suppressed and its Log has returned
Logged(c) == pc[c] = "returned" /\ Emits(c)

\* s[i..j] is ESC, '[', any number of digits and semicolons, and one of m, G, K
AnsiAt(s, i, j) ==
    /\ i + 2 <= j /\ j <= Len(s)
    /\ s[i] = ESC /\ s[i + 1] = "["
    /\ \A k \in (i + 2)..(j - 1) : s[k] \in {"0", "1", "2", "3", "4", "5", "6", "7", "8", "9", ";"}
    /\ s[j] \in {"m", "G", "K"}

HasAnsi(s) == \E i \in Positions(s, ESC) : \E j \in (i + 2)..Len(s) : AnsiAt(s, i, j)

\* C3: No escape sequence with color disabled.  Whatever the formatter, the
\* message and the fields, the line written by a logger whose color is
\* disabled holds no ESC '[' parameters final sequence.
NoAnsiWhenColorDisabled ==
    \A c \in Callers :
        (Logged(c) /\ ~color[Target(call[c])]) => ~HasAnsi(LastWrite(c))

\* C8: Single line.  What a call appends to the sink holds exactly one
\* newline, its last token, so the sink holds as many newlines as there were
\* calls that were not suppressed.
SingleLine ==
    /\ \A c \in Callers :
         Logged(c) =>
            /\ NewLines(LastWrite(c)) = 1
            /\ LastWrite(c)[Len(LastWrite(c))] = NL
    /\ NewLines(sink["inst"]) + NewLines(sink["app"]) = fmtCalls

-----------------------------------------------------------------------------
(* Reading a written JSON line back *)

\* how many backslashes stand directly before position i
BackslashRun(s, i) ==
    Cardinality({n \in 1..(i - 1) : \A k \in (i - n)..(i - 1) : s[k] = BSLASH})

\* the positions of the quotes that delimit strings, in order
QuoteSeq(s) ==
    SelectSeq([k \in 1..Len(s) |-> k],
              LAMBDA k : s[k] = QUOTE /\ BackslashRun(s, k) % 2 = 0)

Unescaped(ch) ==
    CASE ch = "n" -> NL
      [] ch = "u001b" -> ESC
      [] OTHER -> ch

\* the string that the JSON text r between two quotes stands for
Unescape(r) ==
    LET kept == SelectSeq([k \in 1..Len(r) |-> k],
                          LAMBDA k : ~(r[k] = BSLASH /\ BackslashRun(r, k) % 2 = 0))
    IN [n \in 1..Len(kept) |->
            IF BackslashRun(r, kept[n]) % 2 = 1 THEN Unescaped(r[kept[n]]) ELSE r[kept[n]]]

\* the members at nesting depth d of the JSON text s, as <<key, value>>; a
\* value that is not a string is given as <<"{">>
JsonMembers(s, d) ==
    LET qs == QuoteSeq(s)
        outside(p) == Cardinality({j \in 1..Len(qs) : qs[j] < p}) % 2 = 0
        opened(p) == Cardinality({i \in 1..(p - 1) : s[i] = "{" /\ outside(i)})
        closed(p) == Cardinality({i \in 1..(p - 1) : s[i] = "}" /\ outside(i)})
        text(k) == Unescape(SubSeq(s, qs[2 * k - 1] + 1, qs[2 * k] - 1))
        keys == {k \in 1..(Len(qs) \div 2) :
                    /\ qs[2 * k] + 1 < Len(s)
                    /\ s[qs[2 * k] + 1] = ":"
                    /\ opened(qs[2 * k]) = closed(qs[2 * k]) + d}
    IN {<<text(k), IF s[qs[2 * k] + 2] = QUOTE THEN text(k + 1) ELSE <<s[qs[2 * k] + 2]>>>> :
            k \in keys}

\* s is one object: it opens and closes with a brace and its quotes pair up
JsonObjectText(s) ==
    /\ Len(s) >= 2 /\ s[1] = "{" /\ s[Len(s)] = "}"
    /\ Len(QuoteSeq(s)) % 2 = 0

\* t is path:line, the line in decimal and the path of at most three segments
PathLine(t) ==
    /\ Positions(t, ":") # {}
    /\ LET p == CHOOSE x \in Positions(t, ":") : \A y \in Positions(t, ":") : y <= x
           path == SubSeq(t, 1, p - 1)
           line == SubSeq(t, p + 1, Len(t))
       IN /\ line # <<>>
          /\ \A i \in 1..Len(line) : line[i] \in {"0", "1", "2", "3", "4", "5", "6", "7", "8", "9"}
          /\ Cardinality(Positions(path, "/")) <= 2
          /\ \A i \in 1..Len(path) : path[i] \notin {SP, NL, ESC}

\* the fields the caller gave a value, under their declared keys
SuppliedFields(f) ==
    {m \in {<<<<"method">>, f.Method>>, <<<<"path">>, f.Path>>, <<<<"status">>, f.Status>>,
            <<<<"size">>, f.Size>>, <<<<"latency">>, f.Latency>>,
            <<<<"caller_info">>, f.CallerInfo>>} : m[2] # <<>>}

LevelNames == <<"debug", "info", "warn", "error", "fatal">>

WithJSON(c) == Logged(c) /\ formatter[Target(call[c])] = "json"

\* C5 as stated: the line is one JSON object with the keys timestamp, level,
\* message and fields, level the lowercase name, message the call's message,
\* and the fields object holds exactly the non-empty supplied fields.
JSONShapeAsStated ==
    \A c \in Callers :
        WithJSON(c) =>
            LET top == JsonMembers(out[c], 1)
            IN /\ JsonObjectText(out[c])
               /\ {m[1] : m \in top} = {<<"timestamp">>, <<"level">>, <<"message">>, <<"fields">>}
               /\ <<<<"level">>, <<LevelNames[call[c].level + 1]>>>> \in top
               /\ <<<<"message">>, call[c].msg>> \in top
               /\ JsonMembers(out[c], 2) = SuppliedFields(call[c].fields)

\* C5, amended: the line is one JSON object with exactly the keys timestamp,
\* level, message and fields; level is the lowercase name of the call's
\* level; message is the call's message with each newline replaced by a
\* space; the fields object holds the non-empty supplied fields under their
\* declared keys and always a caller_info, which is the supplied one or, when
\* none was supplied, a captured path:line token; it holds no other key.
JSONShape ==
    \A c \in Callers :
        WithJSON(c) =>
            LET top == JsonMembers(out[c], 1)
                inner == JsonMembers(out[c], 2)
                f == call[c].fields
            IN /\ JsonObjectText(out[c])
               /\ LastWrite(c) = out[c] \o <<NL>>
               /\ Cardinality(top) = 4
               /\ {m[1] : m \in top} = {<<"timestamp">>, <<"level">>, <<"message">>, <<"fields">>}
               /\ <<<<"level">>, <<LevelNames[call[c].level + 1]>>>> \in top
               /\ <<<<"message">>, [i \in 1..Len(call[c].msg) |->
                                      IF call[c].msg[i] = NL THEN SP ELSE call[c].msg[i]]>> \in top
               /\ <<<<"fields">>, <<"{">>>> \in top
               /\ \E ts \in top : ts[1] = <<"timestamp">> /\ ts[2] # <<>> /\ ts[2][1] = "T"
               /\ IF f.CallerInfo # <<>>
                  THEN inner = SuppliedFields(f)
                  ELSE \E tok \in inner :
                         /\ tok[1] = <<"caller_info">> /\ PathLine(tok[2])
                         /\ inner = SuppliedFields(f) \cup {tok}

\* C5 witness: a call that supplied every field but callerInfo was written as
\* JSON, and its fields object has six members
JSONShapeWitness ==
    \E c \in Callers :
        /\ WithJSON(c)
        /\ call[c].fields = NewLogFields(GET, Ping, OK200, KB51, Ms120)
        /\ Cardinality(JsonMembers(out[c], 2)) = 6

-----------------------------------------------------------------------------
(* The caller token of a written line *)

\* what follows the last space of the text line o, without the color that
\* wraps it
TextTail(o) ==
    LET sp == Positions(o, SP)
        p == IF sp = {} THEN 0 ELSE CHOOSE x \in sp : \A y \in sp : y <= x
        t == SubSeq(o, p + 1, Len(o))
    IN IF /\ Len(t) >= 9
          /\ SubSeq(t, 1, 5) = <<ESC, "[", "9", "4", "m">>
          /\ SubSeq(t, Len(t) - 3, Len(t)) = <<ESC, "[", "0", "m">>
       THEN SubSeq(t, 6, Len(t) - 4)
       ELSE t

\* the caller_info of the JSON line o
JsonCallerInfo(o) ==
    LET found == {m \in JsonMembers(o, 2) : m[1] = <<"caller_info">>}
    IN IF found = {} THEN <<>> ELSE (CHOOSE m \in found : TRUE)[2]

\* the step by which caller c's call is written
Writes(c) ==
    /\ pc[c] = "called" /\ pc'[c] = "returned"
    /\ call[c].level >= level[Target(call[c])]

\* the step by which caller c's call is written captures a caller token
\* when the call supplied none, and only then
CapturesWhenEmpty(c) ==
    Writes(c) =>
        captures' = IF call[c].fields.CallerInfo = <<>> THEN captures + 1 ELSE captures

-----------------------------------------------------------------------------
(* The text line *)

LevelTags == <<"DEBUG", "INFO", "WARN", "ERROR", "FATAL">>

\* the sequences of ss that are not empty, in order
NonEmpty(ss) == SelectSeq(ss, LAMBDA s : s # <<>>)

WithText(c) ==
    Logged(c) /\ formatter[Target(call[c])] = "default" /\ ~color[Target(call[c])]

\* the message as the formatter is given it
OneLine(msg) == [i \in 1..Len(msg) |-> IF msg[i] = NL THEN SP ELSE msg[i]]

\* the text line made of the given request part, the other fields that are
\* not empty, the message and the caller token
TextLine(c, request, ci) ==
    LET f == call[c].fields
        head == <<<<"[", LevelTags[call[c].level + 1], "]">>, <<"T">> \o Itoa(now) \o <<"Z">>>>
        middle == NonEmpty(<<request, f.Status, f.Size, f.Latency>>)
        tail == <<<<"-">>, OneLine(call[c].msg), <<"-">>, ci>>
    IN Join(head \o middle \o tail, <<SP>>)

\* the caller tokens the line of caller c may end with
CallerTokens(c) ==
    IF call[c].fields.CallerInfo # <<>> THEN {call[c].fields.CallerInfo}
    ELSE {captureCaller(fr) : fr \in Frames}

\* C9 as stated: the text line of a logger with color disabled is the
\* space-separated sequence [LEVEL], timestamp, method and path, status,
\* size, latency, '-', message, '-', callerInfo, each of method, path,
\* status, size and latency being there if and only if it is not empty.
TextShapeAsStated ==
    \A c \in Callers :
        WithText(c) =>
            LET f == call[c].fields
            IN \E ci \in CallerTokens(c) :
                 out[c] = stripColors(TextLine(c, Join(NonEmpty(<<f.Method, f.Path>>), <<SP>>), ci))

\* C9, amended: the text line of a logger with color disabled is the
\* space-separated sequence [LEVEL], timestamp, method and path, status,
\* size, latency, '-', message, '-', callerInfo, with the escape sequences
\* stripColors removes taken out; method and path are there, as one group
\* "method path", if and only if both are non-empty (one without the other is
\* not rendered); each of status, size and latency is there if and only if it
\* is not empty; the message has its newlines replaced by spaces.
TextShape ==
    \A c \in Callers :
        WithText(c) =>
            LET f == call[c].fields
                request == IF f.Method # <<>> /\ f.Path # <<>>
                           THEN f.Method \o <<SP>> \o f.Path ELSE <<>>
            IN /\ LastWrite(c) = out[c] \o <<NL>>
               /\ \E ci \in CallerTokens(c) : out[c] = stripColors(TextLine(c, request, ci))
               /\ (f.Method # <<>> /\ f.Path = <<>> /\ ~Contains(call[c].msg, f.Method))
                     => ~Contains(out[c], f.Method)

\* C9 witness: a call with a method and no path was written as text with
\* color disabled
TextShapeWitness ==
    \E c \in Callers :
        /\ WithText(c)
        /\ call[c].fields.Method = GET /\ call[c].fields.Path = <<>>
        /\ sink["inst"] # <<>>

-----------------------------------------------------------------------------
(* The lines of a sink *)

\* the whole lines of the sink of logger lg, in order
SinkLines(lg) ==
    LET parts == Split(sink[lg], NL)
    IN SubSeq(parts, 1, Len(parts) - 1)

\* the token of line that follows the first token t, if there is one
After(line, t) ==
    LET P == {i \in Positions(line, t) : i < Len(line)}
    IN IF P = {} THEN "" ELSE line[(CHOOSE i \in P : \A k \in P : i <= k) + 1]

\* the value of a decimal digit, and 0 for any other token
DigitValue(d) ==
    IF \E n \in 1..10 : Digits[n] = d THEN (CHOOSE n \in 1..10 : Digits[n] = d) - 1 ELSE 0

\* the clock value in the line's timestamp, the caller that wrote the line,
\* and the number of the call among that caller's calls
StampOf(line) == DigitValue(After(line, "T"))

CallerOf(line) == DigitValue(After(line, "caller"))

CallNoOf(line) == DigitValue(After(line, "call"))

====
